---- MODULE Spec2Model ----
(***************************************************************************)
(* State-machine model of the ZUS Coffee chatbot API                       *)
(* (src/app/src/rate_limit.py, router.py, utils.py, vectorstore.py,        *)
(* text2SQL.py).                                                           *)
(*                                                                         *)
(* Time is the value of time.time() in seconds; the clock only takes the   *)
(* values 0, TimeStep, 2*TimeStep, ... up to MaxTime.                      *)
(***************************************************************************)
EXTENDS Integers, Sequences, FiniteSets, TLC

(* ------------------------------ bounds -------------------------------- *)
MaxTime == 90
TimeStep == 30
MaxThreads == 2
MaxRequests == 7
MaxRaceRequests == 4
MaxChatRequests == 4
MaxQueryLen == 4
MaxAuthRequests == 4

(* ------------------- rate_limit.py: configuration --------------------- *)
AUTH_RATE_LIMIT == 5
AUTH_TIME_WINDOW_SECONDS == 60
GLOBAL_RATE_LIMIT == 3
GLOBAL_TIME_WINDOW_SECONDS == 60
ACCESS_TOKEN_EXPIRE_MINUTES == 60

ANON == "global_unauthenticated_user"

Identities == {ANON, "alice"}
Threads == 1..MaxThreads
Times == 0..MaxTime
TimePoints == {t \in Times : t % TimeStep = 0}

(* ------------------------- values of the model ------------------------ *)
\* a bearer credential as jwt.decode sees it; Absent is "no Authorization header"
Absent == [present |-> FALSE, wellformed |-> FALSE, signed |-> FALSE,
           exp |-> 0, has_sub |-> FALSE, sub |-> ""]

Jwt(wellformed, signed, exp, has_sub, sub) ==
  [present |-> TRUE, wellformed |-> wellformed, signed |-> signed,
   exp |-> exp, has_sub |-> has_sub, sub |-> sub]

AllTokens ==
  {Absent} \cup
  {Jwt(wf, sg, e, hs, IF hs THEN sb ELSE "") :
     wf \in BOOLEAN, sg \in BOOLEAN, e \in TimePoints, hs \in BOOLEAN,
     sb \in Identities}

\* the credentials the chat clients of the model present
ChatTokens == {Absent, Jwt(TRUE, TRUE, MaxTime, TRUE, "alice")}

Prompts == {"", "top 2 tumblers", "outlets in Selangor"}

\* the query strings the clients of GET /products and GET /outlets send
ProductQueries == {"", "top 2 tumblers"}
OutletQueries == {"", "outlets in Selangor"}

\* a text returned by the Language Model Provider for the classifier
Text(word) == [word |-> word, upper |-> FALSE, padded |-> FALSE]

\* one external call made while serving a request: whether it succeeded, the
\* text that went through it (a generated or executed statement) and the
\* items it returned (index matches, rows)
CallWith(op, ok, text, items) == [op |-> op, ok |-> ok, text |-> text, items |-> items]
Call(op, ok) == CallWith(op, ok, "", <<>>)

\* response payloads; NoEntry is the absence of a cache entry
Response(type, summary, sql_query, items) ==
  [type |-> type, summary |-> summary, sql_query |-> sql_query, items |-> items]

NoEntry == Response("none", "", "", <<>>)
ProductResponse(summary, items) == Response("ProductResponse", summary, "", items)
OutletResponse(summary, sql_query, items) ==
  Response("OutletResponse", summary, sql_query, items)
\* the object get_outlets(prompt) evaluates to when it is not awaited
Coroutine == Response("coroutine", "", "", <<>>)
ErrorBody(detail) == Response("error", detail, "", <<>>)

\* what a handler hands back: HTTP status, payload, the external calls made
Result(status, body, calls) == [status |-> status, body |-> body, calls |-> calls]

(* ----------------- outcomes of the external collaborators ------------- *)
Failed == [ok |-> FALSE, text |-> Text(""), scaffold |-> "", matches |-> <<>>,
           sql |-> "", rows |-> <<>>, effect |-> "none"]

ClassifierOutcomes ==
  {Failed} \cup
  {[Failed EXCEPT !.ok = TRUE, !.text = t] :
     t \in {Text("product"), Text("outlet"), Text("general"), Text("chitchat"),
            [word |-> "product", upper |-> TRUE, padded |-> TRUE],
            [word |-> "outlet", upper |-> TRUE, padded |-> FALSE]}}

EmbedOutcomes == {Failed, [Failed EXCEPT !.ok = TRUE]}

\* results.matches: no match, a match without metadata, usable matches
MatchLists ==
  {<<>>,
   <<[name |-> "cup", metadata |-> FALSE]>>,
   <<[name |-> "tumbler", metadata |-> TRUE]>>,
   <<[name |-> "tumbler", metadata |-> TRUE], [name |-> "cup", metadata |-> FALSE]>>}

IndexOutcomes ==
  {Failed} \cup {[Failed EXCEPT !.ok = TRUE, !.matches = ms] : ms \in MatchLists}

SummaryOutcomes ==
  {Failed,
   [Failed EXCEPT !.ok = TRUE, !.text = Text("t1")],
   [Failed EXCEPT !.ok = TRUE, !.text = Text("t1"), !.scaffold = "Answer:"]}

\* texts the Language Model Provider can return for the statement
SelectSql == "SELECT * FROM outlets WHERE address LIKE '%Selangor%' LIMIT 3"
BrokenSql == "SELEC * FORM outlets"
UnboundedSql == "SELECT * FROM outlets"
DropSql == "DROP TABLE outlets"

SqlGenOutcomes ==
  {Failed} \cup {[Failed EXCEPT !.ok = TRUE, !.sql = q] :
                   q \in {"", SelectSql, BrokenSql, UnboundedSql, DropSql}}

\* how the store reads a text: the kind of statement and its LIMIT
NoLimit == -1

Statement(sql) ==
  CASE sql = SelectSql -> [kind |-> "select", limit |-> 3]
    [] sql = UnboundedSql -> [kind |-> "select", limit |-> NoLimit]
    [] sql = DropSql -> [kind |-> "drop", limit |-> NoLimit]
    [] OTHER -> [kind |-> "invalid", limit |-> NoLimit]

\* the outlet store: the outlets table seeded at startup, or no table
SeedRows == <<"outlet1", "outlet2", "outlet3", "outlet4">>
SeededStore == [has_table |-> TRUE, rows |-> SeedRows]
EmptyStore == [has_table |-> FALSE, rows |-> <<>>]

\* the first rows of the table, as many as the LIMIT allows
Fetch(rows, limit) ==
  IF limit = NoLimit \/ limit >= Len(rows) THEN rows ELSE SubSeq(rows, 1, limit)

\* what conn.execute and fetchall do with a statement: a malformed one, or
\* one whose table is missing, raises; a SELECT returns no row or the rows
\* its LIMIT allows; a DROP is carried out before fetchall raises on a
\* result without rows; any statement can fail in the store itself
ExecuteOutcomes(sql, db) ==
  IF Statement(sql).kind = "invalid" \/ ~db.has_table THEN {Failed}
  ELSE IF Statement(sql).kind = "drop"
    THEN {Failed, [Failed EXCEPT !.effect = "drop"]}
  ELSE {Failed, [Failed EXCEPT !.ok = TRUE],
        [Failed EXCEPT !.ok = TRUE, !.rows = Fetch(db.rows, Statement(sql).limit)]}

\* the store a statement leaves behind
StoreAfter(db, x) == IF x.effect = "drop" THEN EmptyStore ELSE db


VARIABLES
  clock,          \* time.time(), seconds
  user_requests,  \* rate_limit.user_requests: identity -> list of timestamps
  chat_cache,     \* router.chat_cache: prompt -> stored response
  th,             \* per worker: the request it serves and its position in it
  last,           \* the request completed most recently, as the client saw it
  admitted_log,   \* history: identity -> every timestamp ever appended
  succeeded,      \* history: prompt -> body of its first successful chat response
  nreq,           \* number of requests received so far
  outlets_sql_db, \* router.outlets_sql_db: the outlet store behind the engine
  users,          \* the content of USER_FILE: username -> stored credential
  last_login,     \* history: the last login call, with what it was answered
  extracted       \* the last extract_top_k_from_query call: query and result

vars == <<clock, user_requests, chat_cache, th, last, admitted_log, succeeded, nreq,
          outlets_sql_db, users, last_login, extracted>>

(* ------------------- rate_limit.get_user_identifier ------------------- *)
\* jwt_decode without the check of the exp claim
jwt_decode_noexp(token, now) ==
  IF ~token.wellformed THEN "JWTError"
  ELSE IF ~token.signed THEN "JWTError"
  ELSE "none"

\* jose.jwt.decode: the error it raises ("none" when it returns the payload)
jwt_decode(token, now) ==
  IF ~token.wellformed THEN "JWTError"
  ELSE IF ~token.signed THEN "JWTError"
  ELSE IF token.exp < now THEN "ExpiredSignatureError"
  ELSE "none"

\* except JWTError: also catches its subclasses
IsJWTError(err) == err \in {"JWTError", "ExpiredSignatureError", "JWTClaimsError"}

get_user_identifier(token, now) ==
  IF ~token.present THEN [raised |-> FALSE, value |-> ANON]
  ELSE LET err == jwt_decode(token, now) IN
    IF err # "none"
      THEN [raised |-> ~IsJWTError(err), value |-> ANON]
      ELSE IF ~token.has_sub THEN [raised |-> FALSE, value |-> ANON]
           ELSE [raised |-> FALSE, value |-> token.sub]

(* --------------------- rate_limit.apply_rate_limit -------------------- *)
\* lines 67-72: the (limit, window) pair is chosen from the identity alone
RateLimitOf(user_id) ==
  IF user_id = ANON THEN GLOBAL_RATE_LIMIT ELSE AUTH_RATE_LIMIT

TimeWindowOf(user_id) ==
  IF user_id = ANON THEN GLOBAL_TIME_WINDOW_SECONDS ELSE AUTH_TIME_WINDOW_SECONDS

\* Keeps with the timestamp that is exactly one window old kept as well
Keeps_inclusive(t, current_time, time_window) == t >= current_time - time_window

\* line 75: the predicate of the list comprehension
Keeps(t, current_time, time_window) == t > current_time - time_window

\* lines 74-76: [t for t in user_requests[user_id] if t > current_time - time_window]
PruneList(list, current_time, time_window) ==
  SelectSeq(list, LAMBDA t : Keeps(t, current_time, time_window))

\* OverLimit with the comparison off by one
OverLimit_strict(current_usage, rate_limit) == current_usage > rate_limit

\* line 79: the request is refused when the kept count has reached the limit
OverLimit(current_usage, rate_limit) == current_usage >= rate_limit

\* lines 65-85 run without preemption: the list left behind and the verdict
apply_rate_limit(list, user_id, current_time) ==
  LET kept          == PruneList(list, current_time, TimeWindowOf(user_id))
      current_usage == Len(kept)
  IN IF OverLimit(current_usage, RateLimitOf(user_id))
       THEN [admitted |-> FALSE, list |-> kept]
       ELSE [admitted |-> TRUE, list |-> Append(kept, current_time)]

(* ------------------------------ utils.py ------------------------------ *)
\* result.strip().lower(), or "general" when the chain raises
detect_intent(c) ==
  IF ~c.ok THEN Text("general")
  ELSE [c.text EXCEPT !.padded = FALSE, !.upper = FALSE]

\* the text after an "Answer:"-style scaffold, stripped; else the whole text
extract_final_answer(m) == m.text.word

(* -------------------- utils.extract_top_k_from_query ------------------ *)
\* a query as the regular expressions see it: its words, in order, separated
\* by white space
QueryWords == {"top", "Top", "laptop", "show", "me", "2", "5", "5th",
               "products", "tumblers"}

Queries == UNION {[1..n -> QueryWords] : n \in 0..MaxQueryLen}

\* the words of the texts the clients of the API send
Split(text) ==
  CASE text = "top 2 tumblers" -> <<"top", "2", "tumblers">>
    [] text = "outlets in Selangor" -> <<"outlets", "in", "Selangor">>
    [] OTHER -> <<>>

\* re.search found nothing
NoMatch == -1

\* query.lower(), word by word
Lower(word) == IF word = "Top" THEN "top" ELSE word

\* a literal of a pattern is not anchored: it matches the end of a word when
\* it leads the pattern and the start of a word when it closes it
EndsWith(word, lit) == word = lit \/ (word = "laptop" /\ lit = "top")

StartsWith(word, lit) ==
  \/ word = lit
  \/ (word = "products" /\ lit = "product")
  \/ (word = "outlets" /\ lit = "outlet")

\* (\d+) right after the white space: the digits a word starts with
LeadingDigits(word) ==
  CASE word = "2" -> 2 [] word = "5" -> 5 [] word = "5th" -> 5 [] OTHER -> NoMatch

\* (\d+) right before the white space: the digits a word ends with
TrailingDigits(word) ==
  CASE word = "2" -> 2 [] word = "5" -> 5 [] OTHER -> NoMatch

\* r'lit1\s+lit2\s+(\d+)' and r'(\d+)\s+lits?'
KeywordThenNumber(lits) == [lits |-> lits, number_first |-> FALSE]
NumberThenKeyword(lit) == [lits |-> <<lit>>, number_first |-> TRUE]

\* the list with the patterns that start with the number moved to the front
Patterns_numbers_first ==
  <<NumberThenKeyword("item"), NumberThenKeyword("product"),
    NumberThenKeyword("outlet"),
    KeywordThenNumber(<<"top">>), KeywordThenNumber(<<"first">>),
    KeywordThenNumber(<<"show", "me">>), KeywordThenNumber(<<"give", "me">>),
    KeywordThenNumber(<<"list">>)>>

\* lines 23-32
Patterns ==
  <<KeywordThenNumber(<<"top">>), KeywordThenNumber(<<"first">>),
    KeywordThenNumber(<<"show", "me">>), KeywordThenNumber(<<"give", "me">>),
    KeywordThenNumber(<<"list">>),
    NumberThenKeyword("item"), NumberThenKeyword("product"),
    NumberThenKeyword("outlet")>>

\* int(match.group(1)) for a match of the pattern that starts in word i, or
\* NoMatch when there is none
MatchAt(pattern, words, i) ==
  IF pattern.number_first
    THEN IF /\ i + 1 <= Len(words)
            /\ TrailingDigits(words[i]) # NoMatch
            /\ StartsWith(Lower(words[i + 1]), pattern.lits[1])
           THEN TrailingDigits(words[i])
           ELSE NoMatch
    ELSE LET n == Len(pattern.lits) IN
         IF /\ i + n <= Len(words)
            /\ EndsWith(Lower(words[i]), pattern.lits[1])
            /\ \A k \in 2..n : Lower(words[i + k - 1]) = pattern.lits[k]
            /\ LeadingDigits(words[i + n]) # NoMatch
           THEN LeadingDigits(words[i + n])
           ELSE NoMatch

\* re.search(pattern, query.lower()): the leftmost match
re_search(pattern, words) ==
  LET hits == {i \in 1..Len(words) : MatchAt(pattern, words, i) # NoMatch}
  IN IF hits = {} THEN NoMatch
     ELSE MatchAt(pattern, words, CHOOSE i \in hits : \A j \in hits : i <= j)

\* lines 33-37: the loop over the patterns, from pattern k on
RECURSIVE FirstMatch(_, _, _)
FirstMatch(patterns, k, words) ==
  IF k > Len(patterns) THEN 3
  ELSE LET match == re_search(patterns[k], words)
       IN IF match # NoMatch THEN match ELSE FirstMatch(patterns, k + 1, words)

extract_top_k_from_query(query) == FirstMatch(Patterns, 1, query)

(* --------------------- vectorstore.search_products -------------------- *)
\* Usable with the test of the metadata dropped
Usable_any(match) == TRUE

\* line 184: if match.metadata
Usable(match) == match.metadata

search_products(query, e, q) ==
  IF ~e.ok
    THEN [products |-> <<>>, calls |-> <<Call("embed", FALSE)>>]
  ELSE IF ~q.ok
    THEN [products |-> <<>>,
          calls |-> <<Call("embed", TRUE), Call("index_query", FALSE)>>]
  ELSE [products |-> SelectSeq(q.matches, Usable),
        calls |-> <<Call("embed", TRUE),
                    CallWith("index_query", TRUE, "", q.matches)>>]

(* --------------------------- router.get_products ---------------------- *)
retrieved_products_info(products) ==
  [i \in DOMAIN products |-> products[i].name]

get_products(query, e, q, m) ==
  IF query = ""
    THEN Result(400, ErrorBody("Query parameter cannot be empty."), <<>>)
  ELSE LET s == search_products(query, e, q) IN
    IF s.products = <<>>
      THEN Result(200, ProductResponse("No relevant products found.", <<>>), s.calls)
    ELSE IF ~m.ok
      THEN Result(500, ErrorBody("An error occurred during product retrieval"),
                  Append(s.calls, Call("summarize", FALSE)))
    ELSE Result(200, ProductResponse(extract_final_answer(m),
                                     retrieved_products_info(s.products)),
                Append(s.calls, Call("summarize", TRUE)))

(* ------------------------ text2SQL.execute_sql_query ------------------ *)
execute_sql_query(sql_query, x) ==
  IF sql_query = "" THEN [result |-> <<>>, calls |-> <<>>]
  ELSE IF ~x.ok
    THEN [result |-> <<>>, calls |-> <<CallWith("execute_sql", FALSE, sql_query, <<>>)>>]
  ELSE [result |-> x.rows,
        calls |-> <<CallWith("execute_sql", TRUE, sql_query, x.rows)>>]

(* --------------------------- router.get_outlets ----------------------- *)
\* NoRows with the test dropped
NoRows_never(result) == FALSE

\* line 153: if len(state['result']) == 0
NoRows(result) == Len(result) = 0

get_outlets(query, db, g, x, m) ==
  IF query = ""
    THEN Result(400, ErrorBody("Query parameter cannot be empty."), <<>>)
  ELSE IF ~db.has_table
    THEN Result(500, ErrorBody("An error occurred while querying outlet data"),
                <<Call("introspect", FALSE)>>)
  ELSE IF ~g.ok
    THEN Result(500, ErrorBody("An error occurred while querying outlet data"),
                <<Call("introspect", TRUE), Call("generate_sql", FALSE)>>)
  ELSE LET st    == execute_sql_query(g.sql, x)
           calls == <<Call("introspect", TRUE),
                      CallWith("generate_sql", TRUE, g.sql, <<>>)>> \o st.calls
       IN
    IF NoRows(st.result)
      THEN Result(200,
             OutletResponse("I couldn't find any relevant outlets based on your query. Please try a different query.",
                            g.sql, st.result),
             calls)
    ELSE IF ~m.ok
      THEN Result(500, ErrorBody("An error occurred while querying outlet data"),
                  Append(calls, Call("summarize", FALSE)))
    ELSE Result(200, OutletResponse(m.text.word, g.sql, st.result),
                Append(calls, Call("summarize", TRUE)))

(* -------------------------- router.chat_endpoint ---------------------- *)
\* what FastAPI sends for a returned object: a coroutine object is not
\* JSON-serialisable and becomes an internal server error
Serialize(response, calls) ==
  IF response.type = "coroutine"
    THEN Result(500, ErrorBody("Internal Server Error"), calls)
    ELSE Result(200, response, calls)

\* the handler's outcome: the HTTP result, the cache it leaves, whether the
\* cache answered, and the intent it resolved ("" when it resolved none)
ChatOutcome(res, cache, hit, intent) ==
  [res |-> res, cache |-> cache, hit |-> hit, intent |-> intent]

\* CacheStore with the assignment forgotten
CacheStore_skip(cache, prompt, response) == cache

\* lines 212 and 216: chat_cache[prompt] = response
CacheStore(cache, prompt, response) == [cache EXCEPT ![prompt] = response]

\* chat_dispatch running the product pipeline before it classifies
chat_dispatch_pipeline_first(prompt, cache, c, e, q, m) ==
  LET intent   == detect_intent(c)
      classify == <<Call("classify", c.ok)>>
      caught   == Result(500, ErrorBody("Could not classify intent."), classify)
  IN
    IF intent = Text("product")
      THEN LET r == get_products(prompt, e, q, m) IN
        IF r.status # 200
          THEN ChatOutcome([caught EXCEPT !.calls = r.calls \o classify],
                           cache, FALSE, intent.word)
          ELSE ChatOutcome(Serialize(r.body, r.calls \o classify),
                           CacheStore(cache, prompt, r.body), FALSE, intent.word)
    ELSE IF intent = Text("outlet")
      THEN ChatOutcome(Serialize(Coroutine, classify),
                       CacheStore(cache, prompt, Coroutine), FALSE, intent.word)
    ELSE ChatOutcome(caught, cache, FALSE, intent.word)

\* lines 185-222: the try block, from detect_intent on
chat_dispatch(prompt, cache, c, e, q, m) ==
  LET intent   == detect_intent(c)
      classify == <<Call("classify", c.ok)>>
      caught   == Result(500, ErrorBody("Could not classify intent."), classify)
  IN
    IF intent = Text("product")
      THEN LET r == get_products(prompt, e, q, m) IN
        IF r.status # 200
          THEN ChatOutcome([caught EXCEPT !.calls = classify \o r.calls],
                           cache, FALSE, intent.word)
          ELSE ChatOutcome(Serialize(r.body, classify \o r.calls),
                           CacheStore(cache, prompt, r.body), FALSE, intent.word)
    ELSE IF intent = Text("outlet")
      THEN ChatOutcome(Serialize(Coroutine, classify),
                       CacheStore(cache, prompt, Coroutine), FALSE, intent.word)
    ELSE ChatOutcome(caught, cache, FALSE, intent.word)

\* lines 179-183: what the handler answers before it classifies; NoAnswer
\* (status 0) when it goes on to the try block
NoAnswer(cache) == ChatOutcome(Result(0, NoEntry, <<>>), cache, FALSE, "")

chat_lookup(prompt, cache) ==
  IF cache[prompt] # NoEntry
    THEN ChatOutcome(Serialize(cache[prompt], <<>>), cache, TRUE, "")
  ELSE IF prompt = ""
    THEN ChatOutcome(Result(400, ErrorBody("Prompt cannot be empty."), <<>>),
                     cache, FALSE, "")
  ELSE NoAnswer(cache)

chat_endpoint(prompt, cache, c, e, q, m) ==
  IF chat_lookup(prompt, cache).res.status # 0
    THEN chat_lookup(prompt, cache)
    ELSE chat_dispatch(prompt, cache, c, e, q, m)

(* ------------------ rate_limit.py, router.py: accounts ---------------- *)
\* a password: its first 72 bytes and what follows them
Password(first72, rest) == [first72 |-> first72, rest |-> rest]

Passwords == {Password("pw1", ""), Password("pw1", "x"), Password("pw2", "")}

\* pwd_context is CryptContext(schemes=["bcrypt"]): bcrypt digests the first
\* 72 bytes of the password and ignores the rest; secret is history (the
\* password that was hashed) and is never read by verify
pwd_context_hash(password) == [digest |-> password.first72, secret |-> password]

pwd_context_verify(password, hashed_password) ==
  hashed_password.digest = password.first72

\* no credential is stored under the username
NoUser == [username |-> "", hashed_password |-> pwd_context_hash(Password("", ""))]

\* load_users() when USER_FILE does not exist
NoUsers == [u \in Identities |-> NoUser]

\* lines 34-38: the signed token with the subject and the expiry claim
create_access_token(sub, now) ==
  Jwt(TRUE, TRUE, now + ACCESS_TOKEN_EXPIRE_MINUTES * 60, TRUE, sub)

MessageBody(msg) == Response("message", msg, "", <<>>)

\* router.login, lines 250-257
login(stored, username, password, now) ==
  LET user == stored[username] IN
  IF user = NoUser \/ ~pwd_context_verify(password, user.hashed_password)
    THEN [status |-> 401, token |-> Absent]
    ELSE [status |-> 200, token |-> create_access_token(username, now)]

NoLogin == [called |-> FALSE, username |-> "", password |-> Password("", ""),
            stored |-> NoUser, at |-> 0, status |-> 0, token |-> Absent]

(* ------------------------------- state -------------------------------- *)
\* extract_top_k_from_query has not been called
NoExtract == [called |-> FALSE, query |-> <<>>, top_k |-> 0]

IdleThread == [pc |-> "idle", token |-> Absent, prompt |-> "", user_id |-> ANON,
               raised |-> FALSE, current_time |-> 0, kept |-> <<>>,
               current_usage |-> 0, username |-> "", password |-> Password("", ""),
               loaded |-> NoUsers, c |-> Failed]

Completed(endpoint, prompt, was_admitted, res, hit, intent, succ_before) ==
  [endpoint |-> endpoint, prompt |-> prompt, admitted |-> was_admitted,
   status |-> res.status, body |-> res.body, calls |-> res.calls,
   hit |-> hit, intent |-> intent, succ_before |-> succ_before]

NoneCompleted ==
  Completed("none", "", FALSE, Result(0, NoEntry, <<>>), FALSE, "", NoEntry)

Init ==
  /\ clock = 0
  /\ user_requests = [i \in Identities |-> <<>>]
  /\ chat_cache = [p \in Prompts |-> NoEntry]
  /\ th = [w \in Threads |-> IdleThread]
  /\ last = NoneCompleted
  /\ admitted_log = [i \in Identities |-> <<>>]
  /\ succeeded = [p \in Prompts |-> NoEntry]
  /\ nreq = 0
  /\ outlets_sql_db = SeededStore
  /\ users = NoUsers
  /\ last_login = NoLogin
  /\ extracted = NoExtract

\* the wall clock advances
Tick ==
  /\ clock + TimeStep <= MaxTime
  /\ clock' = clock + TimeStep
  /\ UNCHANGED <<user_requests, chat_cache, th, last, admitted_log, succeeded, nreq, outlets_sql_db, users, last_login, extracted>>

(* ------------- apply_rate_limit, one step per statement --------------- *)
\* line 66: current_time = time.time()
RLEnter(w, user_id) ==
  /\ th[w].pc = "idle"
  /\ nreq' = nreq + 1
  /\ th' = [th EXCEPT ![w] = [IdleThread EXCEPT !.pc = "filter",
                                !.user_id = user_id, !.current_time = clock]]
  /\ UNCHANGED <<clock, user_requests, chat_cache, last, admitted_log, succeeded, outlets_sql_db, users, last_login, extracted>>

\* lines 74-76, right-hand side: the comprehension reads the stored list
RLFilter(w) ==
  /\ th[w].pc = "filter"
  /\ th' = [th EXCEPT ![w].pc = "assign",
              ![w].kept = PruneList(user_requests[th[w].user_id], th[w].current_time,
                                    TimeWindowOf(th[w].user_id))]
  /\ UNCHANGED <<clock, user_requests, chat_cache, last, admitted_log, succeeded, nreq, outlets_sql_db, users, last_login, extracted>>

\* line 74, left-hand side: the pruned list replaces the stored one
RLAssign(w) ==
  /\ th[w].pc = "assign"
  /\ user_requests' = [user_requests EXCEPT ![th[w].user_id] = th[w].kept]
  /\ th' = [th EXCEPT ![w].pc = "count"]
  /\ UNCHANGED <<clock, chat_cache, last, admitted_log, succeeded, nreq, outlets_sql_db, users, last_login, extracted>>

\* line 77: current_usage = len(user_requests[user_id])
RLCount(w) ==
  /\ th[w].pc = "count"
  /\ th' = [th EXCEPT ![w].pc = "decide",
              ![w].current_usage = Len(user_requests[th[w].user_id])]
  /\ UNCHANGED <<clock, user_requests, chat_cache, last, admitted_log, succeeded, nreq, outlets_sql_db, users, last_login, extracted>>

\* lines 79-85: raise 429, or append current_time and return True
RLDecide(w) ==
  /\ th[w].pc = "decide"
  /\ IF OverLimit(th[w].current_usage, RateLimitOf(th[w].user_id))
       THEN /\ th' = [th EXCEPT ![w].pc = "rejected"]
            /\ UNCHANGED <<user_requests, admitted_log>>
       ELSE /\ user_requests' = [user_requests EXCEPT ![th[w].user_id] =
                                   Append(@, th[w].current_time)]
            /\ admitted_log' = [admitted_log EXCEPT ![th[w].user_id] =
                                   Append(@, th[w].current_time)]
            /\ th' = [th EXCEPT ![w].pc = "admitted"]
  /\ UNCHANGED <<clock, chat_cache, last, succeeded, nreq, outlets_sql_db, users, last_login, extracted>>

\* the call returns (or its HTTPException propagates) and the worker is free
RLReturn(w) ==
  /\ th[w].pc \in {"admitted", "rejected"}
  /\ th' = [th EXCEPT ![w] = IdleThread]
  /\ UNCHANGED <<clock, user_requests, chat_cache, last, admitted_log, succeeded, nreq, outlets_sql_db, users, last_login, extracted>>

\* a check starts only when no other check is in progress
SerialEnter(w, user_id) ==
  /\ nreq < MaxRequests
  /\ \A v \in Threads : th[v].pc = "idle"
  /\ RLEnter(w, user_id)

\* checks start whenever a worker is free, as in the thread pool
RaceEnter(w, user_id) ==
  /\ nreq < MaxRaceRequests
  /\ RLEnter(w, user_id)

(* --------------------------- HTTP entry points ------------------------ *)
\* ChatArrive with the cache consulted before the rate limiter: a cached
\* prompt is answered at once and leaves no timestamp
ChatArrive_cache_first(w, token, prompt) ==
  /\ nreq < MaxChatRequests
  /\ th[w].pc = "idle"
  /\ \A v \in Threads : v < w => th[v].pc # "idle"
  /\ nreq' = nreq + 1
  /\ IF chat_cache[prompt] # NoEntry
       THEN /\ last' = Completed("chat", prompt, FALSE,
                                 Serialize(chat_cache[prompt], <<>>), TRUE, "",
                                 succeeded[prompt])
            /\ UNCHANGED <<user_requests, th, admitted_log>>
       ELSE \E id \in {get_user_identifier(token, clock)} :
            \E rl \in {apply_rate_limit(user_requests[id.value], id.value, clock)} :
              /\ user_requests' = [user_requests EXCEPT ![id.value] = rl.list]
              /\ IF rl.admitted
                   THEN /\ admitted_log' =
                             [admitted_log EXCEPT ![id.value] = Append(@, clock)]
                        /\ th' = [th EXCEPT ![w] = [IdleThread EXCEPT
                                     !.pc = "admitted", !.prompt = prompt]]
                        /\ UNCHANGED last
                   ELSE /\ last' = Completed("chat", prompt, FALSE,
                             Result(429, ErrorBody("Too many requests. Please try again later."), <<>>),
                             FALSE, "", succeeded[prompt])
                        /\ UNCHANGED <<th, admitted_log>>
  /\ UNCHANGED <<clock, chat_cache, succeeded, outlets_sql_db, users, last_login, extracted>>

\* POST /chat is received: Depends(get_user_identifier) resolves the caller,
\* Depends(apply_rate_limit) runs on a pool thread (here without preemption;
\* SpecRace has its interleavings), then the handler waits for the event loop,
\* or the client gets 429 and the handler never runs; workers are
\* interchangeable, the first idle one takes the request
ChatArrive(w, token, prompt) ==
  /\ nreq < MaxChatRequests
  /\ th[w].pc = "idle"
  /\ \A v \in Threads : v < w => th[v].pc # "idle"
  /\ nreq' = nreq + 1
  /\ \E id \in {get_user_identifier(token, clock)} :
     \E rl \in {apply_rate_limit(user_requests[id.value], id.value, clock)} :
        /\ user_requests' = [user_requests EXCEPT ![id.value] = rl.list]
        /\ IF rl.admitted
             THEN /\ admitted_log' = [admitted_log EXCEPT ![id.value] = Append(@, clock)]
                  /\ th' = [th EXCEPT ![w] = [IdleThread EXCEPT !.pc = "admitted",
                                                !.prompt = prompt]]
                  /\ UNCHANGED last
             ELSE /\ last' = Completed("chat", prompt, FALSE,
                       Result(429, ErrorBody("Too many requests. Please try again later."), <<>>),
                       FALSE, "", succeeded[prompt])
                  /\ UNCHANGED <<th, admitted_log>>
  /\ UNCHANGED <<clock, chat_cache, succeeded, outlets_sql_db, users, last_login, extracted>>

\* the outcomes of the collaborators a handler can reach: a call that is not
\* made has no outcome to choose
ClassifierReached(prompt, cache) ==
  IF cache[prompt] # NoEntry \/ prompt = "" THEN {Failed} ELSE ClassifierOutcomes

EmbedReached(reached) == IF reached THEN EmbedOutcomes ELSE {Failed}

IndexReached(reached, e) == IF reached /\ e.ok THEN IndexOutcomes ELSE {Failed}

SummaryReached(reached, q) ==
  IF reached /\ q.ok /\ \E i \in DOMAIN q.matches : q.matches[i].metadata
    THEN SummaryOutcomes ELSE {Failed}

\* the body of chat_endpoint; it contains no await that suspends, so it runs
\* to completion on the event loop
ChatEndpoint(w) ==
  /\ th[w].pc = "admitted"
  /\ \E c \in ClassifierReached(th[w].prompt, chat_cache) :
     \E e \in EmbedReached(c.ok /\ detect_intent(c) = Text("product")) :
     \E q \in IndexReached(TRUE, e) :
     \E m \in SummaryReached(TRUE, q) :
     \E o \in {chat_endpoint(th[w].prompt, chat_cache, c, e, q, m)} :
       LET p == th[w].prompt
       IN /\ chat_cache' = o.cache
          /\ last' = Completed("chat", p, TRUE, o.res, o.hit, o.intent, succeeded[p])
          /\ succeeded' = IF o.res.status = 200 /\ succeeded[p] = NoEntry
                            THEN [succeeded EXCEPT ![p] = o.res.body]
                            ELSE succeeded
  /\ th' = [th EXCEPT ![w] = IdleThread]
  /\ UNCHANGED <<clock, user_requests, admitted_log, nreq, outlets_sql_db, users, last_login, extracted>>

\* GET /products: no dependency is declared, the handler runs at once
GetProducts(query) ==
  /\ nreq < MaxChatRequests
  /\ nreq' = nreq + 1
  /\ \E e \in EmbedReached(query # "") :
     \E q \in IndexReached(TRUE, e) :
     \E m \in SummaryReached(TRUE, q) :
     \E res \in {get_products(query, e, q, m)} :
       last' = Completed("products", query, FALSE, res, FALSE, "", succeeded[query])
  /\ UNCHANGED <<clock, user_requests, chat_cache, th, admitted_log, succeeded, outlets_sql_db, users, last_login, extracted>>

\* GET /outlets: no dependency is declared, the handler runs at once
GetOutlets(query) ==
  /\ nreq < MaxChatRequests
  /\ nreq' = nreq + 1
  /\ \E g \in IF query = "" \/ ~outlets_sql_db.has_table
                THEN {Failed} ELSE SqlGenOutcomes :
     \E x \in IF g.ok /\ g.sql # ""
                THEN ExecuteOutcomes(g.sql, outlets_sql_db) ELSE {Failed} :
     \E m \in IF x.ok /\ x.rows # <<>> THEN SummaryOutcomes ELSE {Failed} :
     \E res \in {get_outlets(query, outlets_sql_db, g, x, m)} :
       /\ last' = Completed("outlets", query, FALSE, res, FALSE, "", succeeded[query])
       /\ outlets_sql_db' = StoreAfter(outlets_sql_db, x)
  /\ UNCHANGED <<clock, user_requests, chat_cache, th, admitted_log, succeeded,
                 users, last_login, extracted>>

(* ----------------- chat_endpoint on the event loop -------------------- *)
\* chat_endpoint is a coroutine of the one event loop. While it waits for a
\* call it keeps the loop unless the call is awaited and suspends: the
\* classifier call is chain.invoke inside the plain function detect_intent
\* (utils.py:58), and the product pipeline is awaited (router.py:211) but
\* makes only plain calls itself (router.py:70, 102)
Suspends(wait) == FALSE

\* the coroutine of worker v is in the middle of the handler and has not
\* given up the loop
HoldsLoop(v) == th[v].pc \in {"classify", "retrieve"} /\ ~Suspends(th[v].pc)

\* the handler of worker w returns or raises: the state it leaves behind
Finish(w, o) ==
  LET p == th[w].prompt
  IN /\ chat_cache' = o.cache
     /\ last' = Completed("chat", p, TRUE, o.res, o.hit, o.intent, succeeded[p])
     /\ succeeded' = IF o.res.status = 200 /\ succeeded[p] = NoEntry
                       THEN [succeeded EXCEPT ![p] = o.res.body]
                       ELSE succeeded
     /\ th' = [th EXCEPT ![w] = IdleThread]

\* a request is received and its dependencies are resolved: this needs the
\* loop
LoopArrive(w, token, prompt) ==
  /\ \A v \in Threads : ~HoldsLoop(v)
  /\ ChatArrive(w, token, prompt)

\* lines 179-187: the handler starts, answers from the cache or refuses the
\* empty prompt, or else calls detect_intent
LoopLookup(w) ==
  /\ th[w].pc = "admitted"
  /\ \A v \in Threads : ~HoldsLoop(v)
  /\ \E a \in {chat_lookup(th[w].prompt, chat_cache)} :
       IF a.res.status # 0
         THEN Finish(w, a)
         ELSE /\ th' = [th EXCEPT ![w].pc = "classify"]
              /\ UNCHANGED <<chat_cache, last, succeeded>>
  /\ UNCHANGED <<clock, user_requests, admitted_log, nreq, outlets_sql_db, users,
                 last_login, extracted>>

\* lines 187-211: detect_intent returns; a product intent goes on into
\* get_products, any other ends the request
LoopClassified(w) ==
  /\ th[w].pc = "classify"
  /\ \A v \in Threads \ {w} : ~HoldsLoop(v)
  /\ \E c \in ClassifierOutcomes :
       IF detect_intent(c) = Text("product")
         THEN /\ th' = [th EXCEPT ![w].pc = "retrieve", ![w].c = c]
              /\ UNCHANGED <<chat_cache, last, succeeded>>
         ELSE Finish(w, chat_dispatch(th[w].prompt, chat_cache, c, Failed, Failed, Failed))
  /\ UNCHANGED <<clock, user_requests, admitted_log, nreq, outlets_sql_db, users,
                 last_login, extracted>>

\* lines 211-213: get_products returns or raises, the response is stored
LoopRetrieved(w) ==
  /\ th[w].pc = "retrieve"
  /\ \A v \in Threads \ {w} : ~HoldsLoop(v)
  /\ \E e \in EmbedOutcomes :
     \E q \in IndexReached(TRUE, e) :
     \E m \in SummaryReached(TRUE, q) :
       Finish(w, chat_dispatch(th[w].prompt, chat_cache, th[w].c, e, q, m))
  /\ UNCHANGED <<clock, user_requests, admitted_log, nreq, outlets_sql_db, users,
                 last_login, extracted>>

(* ------------------------- POST /register, /login --------------------- *)
\* register is a plain def: it runs on a pool thread. Lines 242-244: the
\* file is read and the username looked up
RegisterLoad(w, username, password) ==
  /\ nreq < MaxAuthRequests
  /\ th[w].pc = "idle"
  /\ nreq' = nreq + 1
  /\ IF users[username] # NoUser
       THEN /\ last' = Completed("register", username, FALSE,
                                 Result(400, ErrorBody("Username already exists"), <<>>),
                                 FALSE, "", NoEntry)
            /\ UNCHANGED th
       ELSE /\ th' = [th EXCEPT ![w] = [IdleThread EXCEPT !.pc = "hash",
                         !.username = username, !.password = password,
                         !.loaded = users]]
            /\ UNCHANGED last
  /\ UNCHANGED <<clock, user_requests, chat_cache, admitted_log, succeeded,
                 outlets_sql_db, users, last_login, extracted>>

\* lines 245-248: the hash is put in the dict that was loaded and the whole
\* dict is written back
RegisterSave(w) ==
  /\ th[w].pc = "hash"
  /\ users' = [th[w].loaded EXCEPT ![th[w].username] =
                 [username |-> th[w].username,
                  hashed_password |-> pwd_context_hash(th[w].password)]]
  /\ last' = Completed("register", th[w].username, FALSE,
                       Result(200, MessageBody("Registration successful"), <<>>),
                       FALSE, "", NoEntry)
  /\ th' = [th EXCEPT ![w] = IdleThread]
  /\ UNCHANGED <<clock, user_requests, chat_cache, admitted_log, succeeded, nreq,
                 outlets_sql_db, last_login, extracted>>

\* login reads the file once and writes nothing
Login(username, password) ==
  /\ nreq < MaxAuthRequests
  /\ nreq' = nreq + 1
  /\ \E l \in {login(users, username, password, clock)} :
       last_login' = [called |-> TRUE, username |-> username, password |-> password,
                      stored |-> users[username], at |-> clock,
                      status |-> l.status, token |-> l.token]
  /\ UNCHANGED <<clock, user_requests, chat_cache, th, last, admitted_log, succeeded,
                 outlets_sql_db, users, extracted>>

(* --------------------- extract_top_k_from_query ----------------------- *)
\* one call of the function on a query
ExtractTopK(query) ==
  /\ extracted' = [called |-> TRUE, query |-> query,
                   top_k |-> extract_top_k_from_query(query)]
  /\ UNCHANGED <<clock, user_requests, chat_cache, th, last, admitted_log, succeeded,
                 nreq, outlets_sql_db, users, last_login>>

(* ----------------- get_user_identifier as a dependency ---------------- *)
\* a request presents a credential and FastAPI resolves the caller; the
\* coroutine has no await, so the event loop runs one resolution at a time
IdentResolve(w, token) ==
  /\ \A v \in Threads : th[v].pc = "idle"
  /\ nreq < MaxRaceRequests
  /\ nreq' = nreq + 1
  /\ LET id == get_user_identifier(token, clock)
     IN th' = [th EXCEPT ![w] = [IdleThread EXCEPT !.pc = "identified",
                  !.token = token, !.user_id = id.value, !.raised = id.raised,
                  !.current_time = clock]]
  /\ UNCHANGED <<clock, user_requests, chat_cache, last, admitted_log, succeeded, outlets_sql_db, users, last_login, extracted>>

IdentReturn(w) ==
  /\ th[w].pc = "identified"
  /\ th' = [th EXCEPT ![w] = IdleThread]
  /\ UNCHANGED <<clock, user_requests, chat_cache, last, admitted_log, succeeded, nreq, outlets_sql_db, users, last_login, extracted>>

(* ---------------------------- specifications -------------------------- *)
RLSteps ==
  \/ \E w \in Threads : RLFilter(w)
  \/ \E w \in Threads : RLAssign(w)
  \/ \E w \in Threads : RLCount(w)
  \/ \E w \in Threads : RLDecide(w)

\* the API server within one instant of the clock (the handlers never read
\* it; the rate limiter over time is SpecSerial and SpecRace): POST /chat
\* next to GET /products. The chat handler never reaches the outlet store
\* (router.py:215 does not await get_outlets), whose requests are SpecGet
Next ==
  \/ \E w \in Threads, t \in ChatTokens, p \in Prompts : ChatArrive(w, t, p)
  \/ \E w \in Threads : ChatEndpoint(w)
  \/ \E p \in ProductQueries : GetProducts(p)

Spec == Init /\ [][Next]_vars

\* the two GET endpoints, which declare no dependency: GET /outlets works on
\* the outlet store, GET /products next to it
GetNext ==
  \/ \E p \in ProductQueries : GetProducts(p)
  \/ \E p \in OutletQueries : GetOutlets(p)

SpecGet == Init /\ [][GetNext]_vars

\* the rate limiter alone, one check at a time
SerialNext ==
  \/ Tick
  \/ \E w \in Threads, i \in Identities : SerialEnter(w, i)
  \/ RLSteps
  \/ \E w \in Threads : RLReturn(w)

SpecSerial == Init /\ [][SerialNext]_vars

\* the rate limiter alone, checks running on the threads of the pool
RaceNext ==
  \/ Tick
  \/ \E w \in Threads, i \in Identities : RaceEnter(w, i)
  \/ RLSteps
  \/ \E w \in Threads : RLReturn(w)

SpecRace == Init /\ [][RaceNext]_vars

\* the identity resolver alone, over every shape of credential
IdentNext ==
  \/ Tick
  \/ \E w \in Threads, t \in AllTokens : IdentResolve(w, t)
  \/ \E w \in Threads : IdentReturn(w)

SpecIdent == Init /\ [][IdentNext]_vars

\* POST /chat alone, the handler taken one call at a time
LoopNext ==
  \/ \E w \in Threads, t \in ChatTokens, p \in Prompts : LoopArrive(w, t, p)
  \/ \E w \in Threads : LoopLookup(w)
  \/ \E w \in Threads : LoopClassified(w)
  \/ \E w \in Threads : LoopRetrieved(w)

SpecLoop == Init /\ [][LoopNext]_vars

\* the accounts: registrations on the threads of the pool, and logins
AuthNext ==
  \/ Tick
  \/ \E w \in Threads, u \in Identities, p \in Passwords : RegisterLoad(w, u, p)
  \/ \E w \in Threads : RegisterSave(w)
  \/ \E u \in Identities, p \in Passwords : Login(u, p)

SpecAuth == Init /\ [][AuthNext]_vars

\* the query parameter extractor alone, called once on any query of the
\* model (calls do not depend on each other)
TopKNext ==
  /\ ~extracted.called
  /\ \E query \in Queries : ExtractTopK(query)

SpecTopK == Init /\ [][TopKNext]_vars

(* ------------------------------ properties ---------------------------- *)
\* the operations of the two retrieval pipelines
PipelineOps == {"embed", "index_query", "summarize", "introspect",
                "generate_sql", "execute_sql"}

NoOutletsMessage ==
  "I couldn't find any relevant outlets based on your query. Please try a different query."

OpsOf(calls) == {calls[i].op : i \in DOMAIN calls}
FailedOps(calls) == {calls[i].op : i \in {j \in DOMAIN calls : ~calls[j].ok}}

\* how many timestamps of an identity were admitted in the window (t - W, t]
AdmittedWithin(user_id, t, W) ==
  Cardinality({i \in DOMAIN admitted_log[user_id] :
                 /\ admitted_log[user_id][i] > t - W
                 /\ admitted_log[user_id][i] <= t})

\* C1: with checks running one at a time, every identity has at most its
\* limit of admitted requests in any window (t - W, t], the pair (limit, W)
\* being the anonymous one for the anonymous constant and the authenticated
\* one for every other identity.
C1_WindowLimit ==
  \A i \in Identities, t \in Times :
    IF i = ANON
      THEN AdmittedWithin(i, t, GLOBAL_TIME_WINDOW_SECONDS) <= GLOBAL_RATE_LIMIT
      ELSE AdmittedWithin(i, t, AUTH_TIME_WINDOW_SECONDS) <= AUTH_RATE_LIMIT

\* a named identity is refused although more than AUTH_RATE_LIMIT of its
\* requests were admitted earlier: the window has slid and filled up again
C1_Witness ==
  \E w \in Threads :
    /\ th[w].pc = "rejected"
    /\ th[w].user_id # ANON
    /\ Len(admitted_log[th[w].user_id]) > AUTH_RATE_LIMIT

\* C2: the read-prune-count-append of one identity is serialized: the list a
\* call stores is the pruning of the list as it is at that moment (no
\* timestamp appended meanwhile is lost), and a call that admits does so
\* with the stored list still under the limit.
C2_Serialized ==
  [][\A w \in Threads :
       /\ (th[w].pc = "assign" /\ th'[w].pc = "count")
            => user_requests'[th[w].user_id] =
                 PruneList(user_requests[th[w].user_id], th[w].current_time,
                           TimeWindowOf(th[w].user_id))
       /\ (th[w].pc = "decide" /\ th'[w].pc = "admitted")
            => Len(user_requests[th[w].user_id]) < RateLimitOf(th[w].user_id)]_vars

\* C3: once a chat request for a prompt has completed successfully, every
\* later admitted chat request for that prompt is answered with the stored
\* response and makes no classifier or pipeline call.
C3_CachedRepeat ==
  (last.endpoint = "chat" /\ last.admitted /\ last.succ_before # NoEntry)
    => /\ last.hit
       /\ last.calls = <<>>
       /\ last.status = 200
       /\ last.body = last.succ_before

C3_Witness ==
  /\ last.endpoint = "chat"
  /\ last.admitted
  /\ last.succ_before # NoEntry
  /\ last.hit
  /\ last.body.type = "ProductResponse"
  /\ last.body.items # <<>>

\* C4: a chat request that fails in a collaborator call, or ends with an
\* error status, leaves the response cache as it was.
C4_ErrorsNotCached ==
  [][\A w \in Threads :
       (/\ th[w].pc = "admitted"
        /\ th'[w].pc = "idle"
        /\ (last'.status # 200 \/ FailedOps(last'.calls) # {}))
         => chat_cache' = chat_cache]_vars

\* C5: an admitted, non-empty, uncached chat request whose intent is neither
\* product nor outlet ends with status 400 and runs no retrieval pipeline.
C5_UnclassifiedIs400 ==
  (/\ last.endpoint = "chat"
   /\ last.admitted
   /\ ~last.hit
   /\ last.prompt # ""
   /\ last.intent \notin {"product", "outlet"})
    => /\ last.status = 400
       /\ OpsOf(last.calls) \cap PipelineOps = {}

\* C6: an admitted, uncached chat request classified as outlet runs the
\* outlet pipeline, answers with its OutletResponse and stores that response.
C6_OutletDispatch ==
  (/\ last.endpoint = "chat"
   /\ last.admitted
   /\ ~last.hit
   /\ last.intent = "outlet")
    => /\ "generate_sql" \in OpsOf(last.calls)
       /\ last.body.type = "OutletResponse"
       /\ chat_cache[last.prompt] = last.body

\* the classifier call precedes every pipeline call of the request
ClassifiedFirst(calls) ==
  \A i \in DOMAIN calls :
    calls[i].op \in PipelineOps => \E j \in 1..(i - 1) : calls[j].op = "classify"

\* C7 as stated: in every request, on every entry point, no pipeline step
\* runs before the request's intent has been resolved by the classifier.
C7_EveryRequestClassifiedFirst == ClassifiedFirst(last.calls)

\* C7 as amended: in every POST /chat request no pipeline step runs before
\* the classifier has resolved the request's intent.
C7_ChatClassifiedFirst ==
  last.endpoint = "chat" => ClassifiedFirst(last.calls)

C7_Witness ==
  /\ last.endpoint = "chat"
  /\ last.intent = "product"
  /\ {"embed", "index_query", "summarize"} \subseteq OpsOf(last.calls)

\* C8: every request that makes a provider, index or store call was first
\* admitted by the rate limiter.
C8_AdmittedBeforeExpensive ==
  last.calls # <<>> => last.admitted

\* C9: the identity resolver never raises and changes no state; it returns
\* the subject of a well-formed, validly signed, unexpired token that has
\* one, and the anonymous constant for everything else.
C9_ResolverTotal ==
  [][\A w \in Threads :
       (th[w].pc = "idle" /\ th'[w].pc = "identified")
         => /\ ~th'[w].raised
            /\ th'[w].user_id =
                 (IF /\ th'[w].token.present
                     /\ th'[w].token.wellformed
                     /\ th'[w].token.signed
                     /\ th'[w].token.exp >= clock
                     /\ th'[w].token.has_sub
                    THEN th'[w].token.sub
                    ELSE ANON)
            /\ UNCHANGED <<clock, user_requests, chat_cache, last,
                           admitted_log, succeeded, outlets_sql_db, users>>]_vars

\* a correctly signed token with a subject, presented after its expiry, has
\* been resolved to the anonymous identity
C9_Witness ==
  \E w \in Threads :
    /\ th[w].pc = "identified"
    /\ th[w].token.present /\ th[w].token.wellformed /\ th[w].token.signed
    /\ th[w].token.has_sub /\ th[w].token.sub = "alice"
    /\ th[w].token.exp < th[w].current_time
    /\ ~th[w].raised
    /\ th[w].user_id = ANON

\* C10: in the product pipeline a failed embedding, index query or
\* summarization never ends in a successful response, and no call is made
\* twice.
C10_ProductFailureSurfaced ==
  (/\ last.endpoint = "products"
   /\ FailedOps(last.calls) \cap {"embed", "index_query", "summarize"} # {})
    => /\ last.status # 200
       /\ \A i, j \in DOMAIN last.calls :
            last.calls[i].op = last.calls[j].op => i = j

\* C11: in the outlet pipeline, when the statement was generated and its
\* execution returned no row, raised, or was skipped for an empty statement,
\* the answer is a success carrying the fixed no-results message, the
\* generated text and an empty result list, and no summarization call is made.
C11_EmptyOrFailedExecution ==
  (/\ last.endpoint = "outlets"
   /\ \E i \in DOMAIN last.calls :
        last.calls[i].op = "generate_sql" /\ last.calls[i].ok
   /\ \A i \in DOMAIN last.calls :
        last.calls[i].op = "execute_sql"
          => (~last.calls[i].ok \/ last.calls[i].items = <<>>))
    => /\ last.status = 200
       /\ \E i \in DOMAIN last.calls :
            /\ last.calls[i].op = "generate_sql"
            /\ last.body = OutletResponse(NoOutletsMessage, last.calls[i].text, <<>>)
       /\ "summarize" \notin OpsOf(last.calls)

\* a malformed statement was executed, raised, and the caller got the
\* no-results answer with the statement in it
C11_Witness ==
  /\ last.endpoint = "outlets"
  /\ \E i \in DOMAIN last.calls :
       last.calls[i].op = "execute_sql" /\ ~last.calls[i].ok
  /\ last.status = 200
  /\ last.body.sql_query = BrokenSql
  /\ last.body.summary = NoOutletsMessage

\* C12: in the product pipeline, when the search yields no usable match (no
\* match at all, only matches without metadata, or a search that failed),
\* the answer is the fixed no-results message with an empty match list and
\* no summarization call is made.
C12_NoMatchesShortCircuit ==
  (/\ last.endpoint \in {"products", "chat"}
   /\ "embed" \in OpsOf(last.calls)
   /\ \A i \in DOMAIN last.calls :
        last.calls[i].op = "index_query"
          => \A k \in DOMAIN last.calls[i].items : ~last.calls[i].items[k].metadata)
    => /\ last.status = 200
       /\ last.body = ProductResponse("No relevant products found.", <<>>)
       /\ "summarize" \notin OpsOf(last.calls)

\* the index returned matches, none of them usable, and the caller got the
\* no-results answer
C12_Witness ==
  /\ last.endpoint = "products"
  /\ \E i \in DOMAIN last.calls :
       /\ last.calls[i].op = "index_query"
       /\ last.calls[i].ok
       /\ last.calls[i].items # <<>>
       /\ \A k \in DOMAIN last.calls[i].items : ~last.calls[i].items[k].metadata
  /\ last.status = 200
  /\ last.body = ProductResponse("No relevant products found.", <<>>)

\* C13: every statement executed against the outlet store is a SELECT with a
\* LIMIT that does not exceed the result count resolved from the query.
C13_BoundedSelectOnly ==
  \A i \in DOMAIN last.calls :
    last.calls[i].op = "execute_sql"
      => /\ Statement(last.calls[i].text).kind = "select"
         /\ Statement(last.calls[i].text).limit # NoLimit
         /\ Statement(last.calls[i].text).limit
              <= extract_top_k_from_query(Split(last.prompt))

\* C14: the outlet store holds the rows seeded at startup in every reachable
\* state.
C14_StoreImmutable == outlets_sql_db = SeededStore

\* C15: a login with the password the stored credential was registered with
\* succeeds and its token resolves to the username at every time up to its
\* expiry; a login with an unknown username or any other password is
\* answered 401 and issues no token.
C15_LoginRoundTrip ==
  last_login.called =>
    IF /\ last_login.stored # NoUser
       /\ last_login.password = last_login.stored.hashed_password.secret
      THEN /\ last_login.status = 200
           /\ \A t \in Times :
                (last_login.at <= t /\ t <= last_login.token.exp)
                  => get_user_identifier(last_login.token, t)
                       = [raised |-> FALSE, value |-> last_login.username]
      ELSE /\ last_login.status = 401
           /\ last_login.token = Absent

\* C16: a credential, once stored, is never changed or removed by a
\* registration, and a registration is only carried out for a username that
\* is not in the store.
C16_RegisterOnce ==
  [][/\ \A u \in Identities : users[u] # NoUser => users'[u] = users[u]
     /\ \A w \in Threads :
          (th[w].pc = "hash" /\ th'[w].pc = "idle")
            => users[th[w].username] = NoUser]_vars

\* the hints in the order the claim gives them
HintOrder ==
  <<[lits |-> <<"top">>, number_first |-> FALSE],
    [lits |-> <<"first">>, number_first |-> FALSE],
    [lits |-> <<"show", "me">>, number_first |-> FALSE],
    [lits |-> <<"give", "me">>, number_first |-> FALSE],
    [lits |-> <<"list">>, number_first |-> FALSE],
    [lits |-> <<"item">>, number_first |-> TRUE],
    [lits |-> <<"product">>, number_first |-> TRUE],
    [lits |-> <<"outlet">>, number_first |-> TRUE]>>

\* the places of a query where hint h occurs
HintPlaces(h, words) ==
  {i \in 1..Len(words) : MatchAt(HintOrder[h], words, i) # NoMatch}

\* C17: extract_top_k_from_query returns 5 for "show me 5 products" and 2 for
\* "top 2 tumblers", 3 for a query without any hint, and otherwise the number
\* of the leftmost occurrence of the first hint, in the order top, first,
\* show me, give me, list, N items, N products, N outlets, that occurs at all.
C17_TopKHint ==
  extracted.called =>
    LET q == extracted.query
        k == extracted.top_k
    IN /\ q = <<"show", "me", "5", "products">> => k = 5
       /\ q = <<"top", "2", "tumblers">> => k = 2
       /\ (\A h \in DOMAIN HintOrder : HintPlaces(h, q) = {}) => k = 3
       /\ \A h \in DOMAIN HintOrder :
            (/\ HintPlaces(h, q) # {}
             /\ \A g \in 1..(h - 1) : HintPlaces(g, q) = {})
              => \E i \in HintPlaces(h, q) :
                   /\ \A j \in HintPlaces(h, q) : i <= j
                   /\ k = MatchAt(HintOrder[h], q, i)

\* a query with two hints: "N products" comes first in the text, "top N"
\* comes first in the order, and the number of "top N" is returned
C17_Witness ==
  /\ extracted.called
  /\ extracted.query = <<"5", "products", "top", "2">>
  /\ extracted.top_k = 2

\* C18: the provider calls of a chat request are suspension points: while a
\* request waits for its classifier or pipeline call, another admitted
\* request can start its handler and pass its own cache check.
C18_CallsAreSuspensionPoints ==
  \A w, v \in Threads :
    (/\ w # v
     /\ th[w].pc \in {"classify", "retrieve"}
     /\ th[v].pc = "admitted")
      => ENABLED LoopLookup(v)

\* C19: the admission check precedes the cache lookup. A chat request enters
\* its handler only after its identity was found under its limit and the
\* timestamp was recorded, with the cache not yet read; every answer of the
\* handler, a cache hit included, goes to a request admitted that way; a
\* request that is not admitted is answered 429, whether or not its prompt is
\* cached, and touches neither the cache nor the rate window log.
C19_AdmissionBeforeCache ==
  [][/\ \A w \in Threads :
          (th[w].pc = "idle" /\ th'[w].pc = "admitted")
            => /\ \E id \in Identities :
                    LET kept == SelectSeq(user_requests[id],
                                  LAMBDA t : t > clock - TimeWindowOf(id))
                    IN /\ Len(kept) < RateLimitOf(id)
                       /\ user_requests'[id] = Append(kept, clock)
                       /\ admitted_log'[id] = Append(admitted_log[id], clock)
               /\ UNCHANGED <<chat_cache, last>>
     /\ (last' # last /\ last'.endpoint = "chat")
          => IF last'.admitted
               THEN \E w \in Threads :
                      /\ th[w].pc = "admitted"
                      /\ th'[w].pc = "idle"
                      /\ th[w].prompt = last'.prompt
               ELSE /\ last'.status = 429
                    /\ ~last'.hit
                    /\ UNCHANGED <<chat_cache, th, admitted_log>>]_vars

\* a request for a prompt that is in the cache has been answered 429
C19_Witness ==
  /\ last.endpoint = "chat"
  /\ last.status = 429
  /\ last.prompt # ""
  /\ chat_cache[last.prompt] # NoEntry
  /\ succeeded[last.prompt] # NoEntry

\* the steps of one rate-limit check, with the pruning rule given as a
\* parameter: the filter keeps what the rule keeps, the pruned list is
\* stored, and the decision rejects without recording when the kept count
\* has reached the limit and otherwise appends the time of the check
CheckFollows(KeepRule(_, _, _)) ==
  \A w \in Threads :
    LET id  == th[w].user_id
        now == th[w].current_time
    IN /\ (th[w].pc = "filter" /\ th'[w].pc = "assign")
            => th'[w].kept =
                 SelectSeq(user_requests[id],
                           LAMBDA t : KeepRule(t, now, TimeWindowOf(id)))
       /\ (th[w].pc = "assign" /\ th'[w].pc = "count")
            => user_requests'[id] = th[w].kept
       /\ (th[w].pc = "decide" /\ th'[w].pc = "rejected")
            => /\ Len(user_requests[id]) >= RateLimitOf(id)
               /\ UNCHANGED <<user_requests, admitted_log>>
       /\ (th[w].pc = "decide" /\ th'[w].pc = "admitted")
            => /\ Len(user_requests[id]) < RateLimitOf(id)
               /\ user_requests'[id] = Append(user_requests[id], now)

\* the rule of the claim: only t < now - W is discarded
ClaimedKeep(t, now, W) == ~(t < now - W)

\* the rule that holds: t <= now - W is discarded
WindowKeep(t, now, W) == ~(t <= now - W)

====
